---- MODULE Spec2Model ----
(***************************************************************************)
(* Translation QA checker: translation_checker.py (segment pairing, the    *)
(* six rules, run_checks) and the "Run QA" handler of streamlit_app.py.    *)
(*                                                                         *)
(* A Python str is a sequence of one-character strings, so that regular    *)
(* expressions, len(), strip(), the `in` operator and sorted() are         *)
(* computed character by character.  A dict is a sequence of <<key, value>>*)
(* in insertion order with unique keys, or (for a pair record) a function  *)
(* whose DOMAIN is the set of keys present.                                *)
(***************************************************************************)
EXTENDS Integers, Sequences, FiniteSets, Bags, TLC

(***************************************************************************)
(* Characters and strings                                                  *)
(***************************************************************************)
Digits == {"0", "1", "2", "3", "4", "5", "6", "7", "8", "9"}

Letters == {"a", "b", "c", "i", "k", "n", "o", "x", "y", "X", "Y", "_"}

\* \w : letters, digits and the underscore
WordChars == Letters \cup Digits

\* characters str.strip() removes
Whitespace == {" "}

\* Unicode code point of a character (the order sorted() compares by)
Ord(c) ==
  CASE c = " " -> 32
    [] c = "$" -> 36
    [] c = "%" -> 37
    [] c = "'" -> 39
    [] c = "," -> 44
    [] c = "-" -> 45
    [] c = "." -> 46
    [] c = "/" -> 47
    [] c = "0" -> 48
    [] c = "1" -> 49
    [] c = "2" -> 50
    [] c = "3" -> 51
    [] c = "4" -> 52
    [] c = "5" -> 53
    [] c = "6" -> 54
    [] c = "7" -> 55
    [] c = "8" -> 56
    [] c = "9" -> 57
    [] c = "<" -> 60
    [] c = "=" -> 61
    [] c = ">" -> 62
    [] c = "X" -> 88
    [] c = "Y" -> 89
    [] c = "_" -> 95
    [] c = "a" -> 97
    [] c = "b" -> 98
    [] c = "c" -> 99
    [] c = "i" -> 105
    [] c = "k" -> 107
    [] c = "n" -> 110
    [] c = "o" -> 111
    [] c = "x" -> 120
    [] c = "y" -> 121
    [] c = "{" -> 123
    [] c = "}" -> 125

\* Python None
None == <<"None">>

RECURSIVE Concat(_)
\* "".join(parts)
Concat(parts) ==
  IF parts = <<>> THEN <<>> ELSE Head(parts) \o Concat(Tail(parts))

\* s < t for two str: lexicographic by code point, a proper prefix first
RECURSIVE StrLess(_, _)
StrLess(s, t) ==
  IF t = <<>> THEN FALSE
  ELSE IF s = <<>> THEN TRUE
  ELSE IF Head(s) = Head(t) THEN StrLess(Tail(s), Tail(t))
  ELSE Ord(Head(s)) < Ord(Head(t))

\* the position sorted() gives x in the already sorted list l
RECURSIVE Insert(_, _)
Insert(x, l) ==
  IF l = <<>> THEN <<x>>
  ELSE IF StrLess(x, Head(l)) THEN <<x>> \o l
  ELSE <<Head(l)>> \o Insert(x, Tail(l))

\* variant of Sorted: the lists are compared in order of occurrence
Sorted_Unsorted(l) == l

\* sorted(l) for a list of str
RECURSIVE Sorted(_)
Sorted(l) ==
  IF l = <<>> THEN <<>> ELSE Insert(Head(l), Sorted(Tail(l)))

\* t in s, for two str
IsSubstr(t, s) ==
  \E k \in 0..(Len(s) - Len(t)) : SubSeq(s, k + 1, k + Len(t)) = t

\* bool(s.strip()): s has a character that is not whitespace
StripNonEmpty(s) ==
  \E k \in 1..Len(s) : s[k] \notin Whitespace

\* str(n) for an integer n >= 0
RECURSIVE IntStr(_)
IntStr(n) ==
  LET d == CHOOSE c \in Digits : Ord(c) = 48 + (n % 10)
  IN  IF n < 10 THEN <<d>> ELSE IntStr(n \div 10) \o <<d>>

\* repr(l) for a list of str without quotes or backslashes: ['a', 'b']
RECURSIVE ReprItems(_)
ReprItems(l) ==
  IF l = <<>> THEN <<>>
  ELSE <<"'">> \o Head(l) \o <<"'">> \o
       (IF Tail(l) = <<>> THEN <<>> ELSE <<",", " ">> \o ReprItems(Tail(l)))

Repr(l) == <<"[">> \o ReprItems(l) \o <<"]">>

(***************************************************************************)
(* Regular expressions: re.findall scans left to right, takes the leftmost *)
(* match, tries the alternatives in order, and resumes after the match.    *)
(***************************************************************************)
\* last index of the maximal run of characters of cls that starts at i
\* (i - 1 when s[i] is not in cls)
RECURSIVE RunEnd(_, _, _)
RunEnd(s, i, cls) ==
  IF i <= Len(s) /\ s[i] \in cls THEN RunEnd(s, i + 1, cls) ELSE i - 1

\* index of the first occurrence of character c at or after i, 0 when none
RECURSIVE FirstAt(_, _, _)
FirstAt(s, i, c) ==
  IF i > Len(s) THEN 0
  ELSE IF s[i] = c THEN i
  ELSE FirstAt(s, i + 1, c)

\* end of the match of  open [^close]+ close  at i, 0 when it does not match
DelimitedEnd(s, i, open, close) ==
  LET j == FirstAt(s, i + 1, close)
  IN  IF s[i] = open /\ j >= i + 2 THEN j ELSE 0

\* end of the match of  sigil \w+  at i, 0 when it does not match
SigilEnd(s, i, sigil) ==
  LET e == RunEnd(s, i + 1, WordChars)
  IN  IF s[i] = sigil /\ e >= i + 1 THEN e ELSE 0

\* end of the match of  %\w+|\{[^}]+\}|\$\w+  at i, 0 when it does not match
PlaceholderEnd(s, i) ==
  IF SigilEnd(s, i, "%") # 0 THEN SigilEnd(s, i, "%")
  ELSE IF DelimitedEnd(s, i, "{", "}") # 0 THEN DelimitedEnd(s, i, "{", "}")
  ELSE SigilEnd(s, i, "$")

\* re.findall(r"%\w+|\{[^}]+\}|\$\w+", s), from index i on
RECURSIVE FindPlaceholders(_, _)
FindPlaceholders(s, i) ==
  IF i > Len(s) THEN <<>>
  ELSE LET e == PlaceholderEnd(s, i)
       IN  IF e # 0 THEN <<SubSeq(s, i, e)>> \o FindPlaceholders(s, e + 1)
           ELSE FindPlaceholders(s, i + 1)

\* re.findall(r"\d+", s), from index i on
RECURSIVE FindNumbers(_, _)
FindNumbers(s, i) ==
  IF i > Len(s) THEN <<>>
  ELSE LET e == RunEnd(s, i, Digits)
       IN  IF e >= i THEN <<SubSeq(s, i, e)>> \o FindNumbers(s, e + 1)
           ELSE FindNumbers(s, i + 1)

\* re.findall(r"<[^>]+>", s), from index i on
RECURSIVE FindTags(_, _)
FindTags(s, i) ==
  IF i > Len(s) THEN <<>>
  ELSE LET e == DelimitedEnd(s, i, "<", ">")
       IN  IF e # 0 THEN <<SubSeq(s, i, e)>> \o FindTags(s, e + 1)
           ELSE FindTags(s, i + 1)

(***************************************************************************)
(* QAIssue and the rules.  A rule returns <<>> (None) or <<issue>>.        *)
(***************************************************************************)
QAIssue(uid, issue_type, details, src, tgt) ==
  [uid |-> uid, issue_type |-> issue_type, details |-> details,
   source |-> src, target |-> tgt]

\* f"Source={src_tokens}, Target={tgt_tokens}"
TokenDetails(src_tokens, tgt_tokens) ==
  <<"S", "o", "u", "r", "c", "e", "=">> \o Repr(src_tokens) \o
  <<",", " ", "T", "a", "r", "g", "e", "t", "=">> \o Repr(tgt_tokens)

check_placeholders(uid, src, tgt) ==
  LET src_tokens == FindPlaceholders(src, 1)
      tgt_tokens == FindPlaceholders(tgt, 1)
  IN  IF Sorted(src_tokens) # Sorted(tgt_tokens)
      THEN <<QAIssue(uid, "PLACEHOLDER_MISMATCH",
                     TokenDetails(src_tokens, tgt_tokens), src, tgt)>>
      ELSE <<>>

check_numbers(uid, src, tgt) ==
  LET nums_src == FindNumbers(src, 1)
      nums_tgt == FindNumbers(tgt, 1)
  IN  IF Sorted(nums_src) # Sorted(nums_tgt)
      THEN <<QAIssue(uid, "NUM_MISMATCH",
                     TokenDetails(nums_src, nums_tgt), src, tgt)>>
      ELSE <<>>

check_tags(uid, src, tgt) ==
  LET tags_src == FindTags(src, 1)
      tags_tgt == FindTags(tgt, 1)
  IN  IF Sorted(tags_src) # Sorted(tags_tgt)
      THEN <<QAIssue(uid, "TAG_MISMATCH",
                     TokenDetails(tags_src, tags_tgt), src, tgt)>>
      ELSE <<>>

check_empty(uid, src, tgt) ==
  IF StripNonEmpty(src) /\ ~StripNonEmpty(tgt)
  THEN <<QAIssue(uid, "EMPTY_TARGET",
                 <<"T", "a", "r", "g", "e", "t", " ", "i", "s", " ",
                   "e", "m", "p", "t", "y">>, src, tgt)>>
  ELSE <<>>

\* f"Expected '{s_term}' -> '{t_term}'"
GlossaryDetails(s_term, t_term) ==
  <<"E", "x", "p", "e", "c", "t", "e", "d", " ", "'">> \o s_term \o
  <<"'", " ", "-", ">", " ", "'">> \o t_term \o <<"'">>

\* the loop of check_glossary over glossary.items(), from entry k on
RECURSIVE GlossaryScan(_, _, _, _, _)
GlossaryScan(uid, src, tgt, items, k) ==
  IF k > Len(items) THEN <<>>
  ELSE LET s_term == items[k][1]
           t_term == items[k][2]
       IN  IF IsSubstr(s_term, src) /\ ~IsSubstr(t_term, tgt)
           THEN <<QAIssue(uid, "GLOSSARY_MISMATCH",
                          GlossaryDetails(s_term, t_term), src, tgt)>>
           ELSE GlossaryScan(uid, src, tgt, items, k + 1)

\* the loop of check_glossary when it keeps the last violated entry
RECURSIVE GlossaryScanLast(_, _, _, _, _)
GlossaryScanLast(uid, src, tgt, items, k) ==
  IF k = 0 THEN <<>>
  ELSE LET s_term == items[k][1]
           t_term == items[k][2]
       IN  IF IsSubstr(s_term, src) /\ ~IsSubstr(t_term, tgt)
           THEN <<QAIssue(uid, "GLOSSARY_MISMATCH",
                          GlossaryDetails(s_term, t_term), src, tgt)>>
           ELSE GlossaryScanLast(uid, src, tgt, items, k - 1)

\* variant of check_glossary: the last violated entry is reported
check_glossary_Last(uid, src, tgt, items) ==
  GlossaryScanLast(uid, src, tgt, items, Len(items))

check_glossary(uid, src, tgt, items) == GlossaryScan(uid, src, tgt, items, 1)

(***************************************************************************)
(* Length ratio.  A float is the rational [n, d] it was written as; with   *)
(* segment lengths below 40 the comparison and the rounding of the doubles *)
(* agree with the exact ones.                                              *)
(***************************************************************************)
Rat(n, d) == [n |-> n, d |-> d]

\* variant of RatLeq: a < b, so that a ratio on a bound is outside
RatLeq_Strict(a, b) == a.n * b.d < b.n * a.d

\* a <= b
RatLeq(a, b) == a.n * b.d <= b.n * a.d

Max(a, b) == IF a >= b THEN a ELSE b

\* ratio = len(tgt) / max(1, len(src))
Ratio(src, tgt) == Rat(Len(tgt), Max(1, Len(src)))

\* round(100 * r), ties to even, as the ".2f" conversion rounds
Hundredths(r) ==
  LET q   == (100 * r.n) \div r.d
      rem == (100 * r.n) % r.d
  IN  IF 2 * rem > r.d THEN q + 1
      ELSE IF 2 * rem = r.d THEN q + (q % 2)
      ELSE q

\* f"Ratio={ratio:.2f}"
RatioDetails(r) ==
  LET h == Hundredths(r)
  IN  <<"R", "a", "t", "i", "o", "=">> \o IntStr(h \div 100) \o <<".">> \o
      IntStr((h \div 10) % 10) \o IntStr(h % 10)

\* "if src and tgt:" with its nested test on the limits
check_length_ratio(uid, src, tgt, length_ratio_limits) ==
  LET ratio == Ratio(src, tgt)
  IN  IF src # <<>> /\ tgt # <<>>
         /\ ~(RatLeq(length_ratio_limits[1], ratio)
              /\ RatLeq(ratio, length_ratio_limits[2]))
      THEN <<QAIssue(uid, "LENGTH_RATIO", RatioDetails(ratio), src, tgt)>>
      ELSE <<>>

(***************************************************************************)
(* run_checks                                                              *)
(***************************************************************************)
\* p.get(key, default) for a pair record p
Get(p, key, default) == IF key \in DOMAIN p THEN p[key] ELSE default

\* glossary=None
NoGlossary == [supplied |-> FALSE, items |-> <<>>]

\* a glossary dict with the given items
Glossary(items) == [supplied |-> TRUE, items |-> items]

\* "if glossary:" is false for None and for the empty dict
Truthy(glossary) == glossary.supplied /\ glossary.items # <<>>

\* config=None
NoConfig == [supplied |-> FALSE, keys |-> {}]

\* a config mapping with the given keys
Config(keys) == [supplied |-> TRUE, keys |-> keys]

\* variant of PairIssues: the glossary is checked before the empty target
PairIssues_Reordered(p, glossary, config, length_ratio_limits) ==
  LET uid == Get(p, "id", None)
      src == Get(p, "source", <<>>)
      tgt == Get(p, "target", <<>>)
  IN  check_length_ratio(uid, src, tgt, length_ratio_limits)
      \o check_placeholders(uid, src, tgt)
      \o check_numbers(uid, src, tgt)
      \o check_tags(uid, src, tgt)
      \o (IF Truthy(glossary)
          THEN check_glossary(uid, src, tgt, glossary.items)
          ELSE <<>>)
      \o check_empty(uid, src, tgt)

\* variant of PairIssues: a key of config switches the empty-target rule off
PairIssues_ConfigGated(p, glossary, config, length_ratio_limits) ==
  LET uid == Get(p, "id", None)
      src == Get(p, "source", <<>>)
      tgt == Get(p, "target", <<>>)
  IN  check_length_ratio(uid, src, tgt, length_ratio_limits)
      \o check_placeholders(uid, src, tgt)
      \o check_numbers(uid, src, tgt)
      \o check_tags(uid, src, tgt)
      \o (IF "skip_empty_target" \in config.keys THEN <<>>
          ELSE check_empty(uid, src, tgt))
      \o (IF Truthy(glossary)
          THEN check_glossary(uid, src, tgt, glossary.items)
          ELSE <<>>)

\* the body of "for p in pairs": the issues one pair adds, in order
PairIssues(p, glossary, config, length_ratio_limits) ==
  LET uid == Get(p, "id", None)
      src == Get(p, "source", <<>>)
      tgt == Get(p, "target", <<>>)
  IN  check_length_ratio(uid, src, tgt, length_ratio_limits)
      \o check_placeholders(uid, src, tgt)
      \o check_numbers(uid, src, tgt)
      \o check_tags(uid, src, tgt)
      \o check_empty(uid, src, tgt)
      \o (IF Truthy(glossary)
          THEN check_glossary(uid, src, tgt, glossary.items)
          ELSE <<>>)

(***************************************************************************)
(* Files and extract_segments.  A file is its extension and what its       *)
(* parser reads from it: the texts of a document (paragraphs, shapes,      *)
(* pages) in order, or the columns of a sheet (header and cells as str).   *)
(***************************************************************************)
Document(ext, texts) == [ext |-> ext, texts |-> texts, columns |-> <<>>]

Sheet(columns) == [ext |-> "xlsx", texts |-> <<>>, columns |-> columns]

\* tgt_file=None
NoFile == [ext |-> "None", texts |-> <<>>, columns |-> <<>>]

Returned(value) == [raised |-> FALSE, value |-> value]

\* raise ValueError(...)
Raised == [raised |-> TRUE, value |-> <<>>]

\* [t for t in texts if t.strip()]
RECURSIVE NonBlank(_)
NonBlank(texts) ==
  IF texts = <<>> THEN <<>>
  ELSE (IF StripNonEmpty(Head(texts)) THEN <<Head(texts)>> ELSE <<>>)
       \o NonBlank(Tail(texts))

\* df[col] if col in df.columns, else the first column df.iloc[:, 0]
ColumnOrFirst(columns, col) ==
  IF \E k \in 1..Len(columns) : columns[k].name = col
  THEN columns[CHOOSE k \in 1..Len(columns) : columns[k].name = col].cells
  ELSE columns[1].cells

extract_segments(file, is_source) ==
  IF file.ext = "xlsx"
  THEN Returned(ColumnOrFirst(file.columns,
                              IF is_source THEN "source" ELSE "target"))
  ELSE IF file.ext = "docx" THEN Returned(NonBlank(file.texts))
  ELSE IF file.ext = "pptx" THEN Returned(NonBlank(file.texts))
  ELSE IF file.ext = "pdf"
  THEN (IF ~is_source THEN Raised ELSE Returned(NonBlank(file.texts)))
  ELSE Raised

\* the dict load_pairs appends for index i (1-based here, 0-based in the code)
AlignedPair(src_segments, tgt_segments, i) ==
  [id |-> IntStr(i),
   source |-> IF i <= Len(src_segments) THEN src_segments[i] ELSE <<>>,
   target |-> IF i <= Len(tgt_segments) THEN tgt_segments[i] ELSE <<>>]

\* variant of load_pairs: the lists are zipped, the longer one is cut
load_pairs_Zip(src_file, tgt_file) ==
  LET src_x == extract_segments(src_file, TRUE)
      tgt_x == IF tgt_file # NoFile THEN extract_segments(tgt_file, FALSE)
               ELSE Returned(<<>>)
      min_len == IF Len(src_x.value) <= Len(tgt_x.value)
                 THEN Len(src_x.value) ELSE Len(tgt_x.value)
  IN  IF src_x.raised \/ tgt_x.raised THEN Raised
      ELSE Returned([i \in 1..min_len |->
                       AlignedPair(src_x.value, tgt_x.value, i)])

load_pairs(src_file, tgt_file) ==
  LET src_x == extract_segments(src_file, TRUE)
      tgt_x == IF tgt_file # NoFile THEN extract_segments(tgt_file, FALSE)
               ELSE Returned(<<>>)
      max_len == Max(Len(src_x.value), Len(tgt_x.value))
  IN  IF src_x.raised \/ tgt_x.raised THEN Raised
      ELSE Returned([i \in 1..max_len |->
                       AlignedPair(src_x.value, tgt_x.value, i)])

(***************************************************************************)
(* The merge of the "Run QA" handler, streamlit_app.py lines 92-102.       *)
(* A dict is the sequence of its <<key, value>> items in insertion order.  *)
(***************************************************************************)
\* p.get('id') or str(i+1), for the record at 1-based position i
MergeKey(p, i) ==
  IF Get(p, "id", None) \in {None, <<>>} THEN IntStr(i) ELSE p["id"]

HasKey(d, key) == \E k \in 1..Len(d) : d[k][1] = key

\* variant of DictPut: the first value of a key is kept
DictPut_KeepFirst(d, key, value) ==
  IF HasKey(d, key) THEN d ELSE Append(d, <<key, value>>)

\* d[key] = value: a new key goes last, a key already there keeps its place
DictPut(d, key, value) ==
  IF HasKey(d, key)
  THEN [k \in 1..Len(d) |->
          IF d[k][1] = key THEN <<key, value>> ELSE d[k]]
  ELSE Append(d, <<key, value>>)

\* {p.get('id') or str(i+1): p for i, p in enumerate(records)}, first n records
RECURSIVE IdMap(_, _)
IdMap(records, n) ==
  IF n = 0 THEN <<>>
  ELSE DictPut(IdMap(records, n - 1), MergeKey(records[n], n), records[n])

\* d.get(key, {})
DictGet(d, key) ==
  IF HasKey(d, key)
  THEN d[CHOOSE k \in 1..Len(d) : d[k][1] = key][2]
  ELSE << >>

\* list(dict.fromkeys(keys)), first n keys
RECURSIVE FromKeys(_, _)
FromKeys(keys, n) ==
  IF n = 0 THEN <<>>
  ELSE LET before == FromKeys(keys, n - 1)
       IN  IF \E k \in 1..Len(before) : before[k] = keys[n]
           THEN before ELSE Append(before, keys[n])

Keys(d) == [k \in 1..Len(d) |-> d[k][1]]

Merge(src_records, tgt_records) ==
  LET src_map == IdMap(src_records, Len(src_records))
      tgt_map == IdMap(tgt_records, Len(tgt_records))
      keys    == Keys(src_map) \o Keys(tgt_map)
      all_ids == FromKeys(keys, Len(keys))
  IN  [k \in 1..Len(all_ids) |->
         [id |-> all_ids[k],
          source |-> Get(DictGet(src_map, all_ids[k]), "source", <<>>),
          target |-> Get(DictGet(tgt_map, all_ids[k]), "target", <<>>)]]

VARIABLES
  pairs,       \* argument of run_checks: the list of pair records
  glossary,    \* argument of run_checks
  config,      \* argument of run_checks, as passed to the current call
  limits,      \* argument of run_checks: length_ratio_limits
  pc,          \* "idle" | "loop" | "done": position of the current call
  idx,         \* 1-based position of the loop "for p in pairs"
  issues,      \* local of run_checks, returned at "done"
  stats,       \* local of run_checks, returned at "done"
  origin,      \* history: origin[k] is the index of the pair that added issues[k]
  prev,        \* history: config and result of the call before the current one
  src_file,    \* argument of load_pairs
  tgt_file,    \* argument of load_pairs (NoFile for None)
  loaded,      \* what load_pairs returned or raised
  src_pairs,   \* source-side records of the merge
  tgt_pairs,   \* target-side records of the merge
  combined,    \* the merged list
  uploaded_source,  \* st.file_uploader("Upload Source File")
  uploaded_target,  \* st.file_uploader("Upload Translated File")
  app          \* outcome of the "Run QA" handler

runVars == <<pairs, glossary, config, limits, pc, idx, issues, stats, origin, prev>>

alignVars == <<src_file, tgt_file, loaded, src_pairs, tgt_pairs, combined>>

appVars == <<uploaded_source, uploaded_target, app>>

vars == <<runVars, alignVars, appVars>>

\* no call has returned yet
NoResult == [returned |-> FALSE, config |-> NoConfig, issues |-> <<>>,
             stats |-> [total |-> 0, issues |-> 0]]

NotCalled == [called |-> FALSE, raised |-> FALSE, value |-> <<>>]

\* run_checks is entered: lines 151-152
Enter(cfg) ==
  /\ pc \in {"idle", "done"}
  /\ config' = cfg
  /\ issues' = <<>>
  /\ origin' = <<>>
  /\ stats' = [total |-> Len(pairs), issues |-> 0]
  /\ idx' = 1
  /\ pc' = "loop"
  /\ prev' = IF pc = "done"
             THEN [returned |-> TRUE, config |-> config,
                   issues |-> issues, stats |-> stats]
             ELSE prev
  /\ UNCHANGED <<pairs, glossary, limits, alignVars, appVars>>

\* variant of LoopStep: an issue equal to one already listed is not added
LoopStep_Dedup ==
  /\ pc = "loop"
  /\ idx <= Len(pairs)
  /\ LET new  == PairIssues(pairs[idx], glossary, config, limits)
         kept == SelectSeq(new, LAMBDA x : \A k \in 1..Len(issues) : issues[k] # x)
     IN  /\ issues' = issues \o kept
         /\ origin' = origin \o [k \in 1..Len(kept) |-> idx]
  /\ idx' = idx + 1
  /\ UNCHANGED <<pairs, glossary, config, limits, pc, stats, prev,
                 alignVars, appVars>>

\* one iteration of "for p in pairs": lines 154-172
LoopStep ==
  /\ pc = "loop"
  /\ idx <= Len(pairs)
  /\ LET new == PairIssues(pairs[idx], glossary, config, limits)
     IN  /\ issues' = issues \o new
         /\ origin' = origin \o [k \in 1..Len(new) |-> idx]
  /\ idx' = idx + 1
  /\ UNCHANGED <<pairs, glossary, config, limits, pc, stats, prev,
                 alignVars, appVars>>

\* variant of Return: stats is returned as it was initialised
Return_Stale ==
  /\ pc = "loop"
  /\ idx > Len(pairs)
  /\ pc' = "done"
  /\ UNCHANGED <<pairs, glossary, config, limits, idx, issues, stats, origin,
                 prev, alignVars, appVars>>

\* the loop is over: lines 174-175
Return ==
  /\ pc = "loop"
  /\ idx > Len(pairs)
  /\ stats' = [stats EXCEPT !.issues = Len(issues)]
  /\ pc' = "done"
  /\ UNCHANGED <<pairs, glossary, config, limits, idx, issues, origin, prev,
                 alignVars, appVars>>

\* load_pairs(src_file, tgt_file) is called
LoadPairs ==
  /\ ~loaded.called
  /\ loaded' = [called |-> TRUE] @@ load_pairs(src_file, tgt_file)
  /\ UNCHANGED <<runVars, src_file, tgt_file, src_pairs, tgt_pairs, combined,
                 appVars>>

\* the merge block runs on src_pairs and tgt_pairs
MergeStep ==
  /\ ~combined.done
  /\ combined' = [done |-> TRUE, value |-> Merge(src_pairs, tgt_pairs)]
  /\ UNCHANGED <<runVars, src_file, tgt_file, loaded, src_pairs, tgt_pairs,
                 appVars>>

(***************************************************************************)
(* The "Run QA" handler, streamlit_app.py lines 72-105.                    *)
(***************************************************************************)
\* the file NamedTemporaryFile(delete=False) holds after the upload is
\* written to it: the same bytes under a name without an extension
TempFile(uploaded) == [uploaded EXCEPT !.ext = ""]

Idle == [status |-> "idle", handed |-> <<>>]

RunQA(g, c, min_ratio, max_ratio) ==
  /\ uploaded_source # NoFile
  /\ uploaded_target # NoFile
  /\ LET src_path  == TempFile(uploaded_source)
         tgt_path  == TempFile(uploaded_target)
         src_load  == load_pairs(src_path, NoFile)
         tgt_load  == load_pairs(tgt_path, NoFile)
         merged    == Merge(src_load.value, tgt_load.value)
     IN  IF src_load.raised \/ tgt_load.raised
         THEN /\ app' = [status |-> "error", handed |-> <<>>]
              /\ UNCHANGED runVars
         ELSE /\ app' = [status |-> "checking", handed |-> merged]
              /\ pairs' = merged
              /\ glossary' = g
              /\ config' = c
              /\ limits' = <<min_ratio, max_ratio>>
              /\ issues' = <<>>
              /\ origin' = <<>>
              /\ stats' = [total |-> Len(merged), issues |-> 0]
              /\ idx' = 1
              /\ pc' = "loop"
              /\ UNCHANGED prev
  /\ UNCHANGED <<alignVars, uploaded_source, uploaded_target>>

(***************************************************************************)
(* Bounds and input domains                                                *)
(***************************************************************************)
MaxPairs == 2

MaxAtoms == 2

MaxGloss == 3

MaxRatioLen == 6

MaxSegs == 2

MaxRecs == 2

\* all lists of at most n elements of S
ListsUpTo(S, n) == UNION {[1..k -> S] : k \in 0..n}

\* length_ratio_limits=(0.5, 3.0)
DefaultLimits == <<Rat(1, 2), Rat(3, 1)>>

Configs == {NoConfig, Config({}), Config({"skip_empty_target"})}

\* pairs of the runs with several pairs and several calls
LoopSources ==
  {<<"{", "n", "}", "<", "b", ">", "7", " ", "o", "k">>, <<"o", "k">>}

LoopTargets ==
  {<<" ">>, <<"{", "n", "}", "<", "b", ">", "7", " ", "o", "k">>, <<"k">>}

LoopPairs ==
  {[id |-> i, source |-> s, target |-> t] :
     i \in {<<"1">>, <<"2">>}, s \in LoopSources, t \in LoopTargets}
  \cup {[source |-> <<"o", "k">>]}

LoopGlossaries == {NoGlossary, Glossary(<< <<(<<"o", "k">>), (<<"k">>)>> >>)}

\* segments made of placeholders, numbers and tags
TokenAtoms ==
  {<<"%", "a">>, <<"{", "b", "}">>, <<"1">>, <<"2">>,
   <<"<", "i", ">">>, <<"<", "b", ">">>}

TokenSegments == {Concat(w) : w \in ListsUpTo(TokenAtoms, MaxAtoms)}

\* segments of every length up to MaxRatioLen
RatioSegments == {[k \in 1..n |-> "x"] : n \in 0..MaxRatioLen}

RatioLimits ==
  {DefaultLimits, <<Rat(1, 10), Rat(1, 1)>>, <<Rat(1, 1), Rat(5, 1)>>,
   <<Rat(2, 5), Rat(3, 2)>>}

\* glossaries: at most MaxGloss entries with distinct source terms
GlossKeys == {<<"a">>, <<"b">>, <<"a", "b">>, <<"b", "a">>}

GlossVals == {<<"y">>, <<"x", "y">>}

GlossItems ==
  {g \in ListsUpTo(GlossKeys \X GlossVals, MaxGloss) :
     \A j, k \in 1..Len(g) : j # k => g[j][1] # g[k][1]}

GlossSources == ListsUpTo({"a", "b"}, 2)

GlossTargets == ListsUpTo({"x", "y"}, 2)

\* files
Texts == {<<" ">>, <<"a">>, <<"b">>}

Cells == {<<"a">>, <<"b">>}

TextLists == ListsUpTo(Texts, MaxSegs)

\* sheets with one column, and with a source and a target column
Sheets ==
  {Sheet(<<[name |-> h, cells |-> l]>>) :
     h \in {"source", "target", "text"}, l \in TextLists}
  \cup
  {Sheet(<<[name |-> "source", cells |-> [k \in 1..Len(r) |-> r[k][1]]],
           [name |-> "target", cells |-> [k \in 1..Len(r) |-> r[k][2]]]>>) :
     r \in ListsUpTo(Cells \X Cells, MaxSegs)}

Files ==
  Sheets \cup
  {Document(e, l) : e \in {"docx", "pptx", "pdf", "txt"}, l \in TextLists}

\* st.file_uploader(type=["xlf","xliff","csv","tsv","xlsx","txt"])
Uploads ==
  Sheets \cup {Document(e, l) : e \in {"csv", "txt"}, l \in TextLists}

\* records of the merge: "id" and the text key may be missing
SourceRecords ==
  {[id |-> i, source |-> s] : i \in {<<"2">>, <<"a">>}, s \in {<<"X">>, <<"Y">>}}
  \cup {[source |-> s] : s \in {<<"X">>, <<"Y">>}}
  \cup {[id |-> <<"2">>]}

TargetRecords ==
  {[id |-> i, target |-> s] : i \in {<<"2">>, <<"b">>}, s \in {<<"X">>, <<"Y">>}}
  \cup {[target |-> s] : s \in {<<"X">>, <<"Y">>}}
  \cup {[id |-> <<"2">>]}

(***************************************************************************)
(* Specifications                                                          *)
(***************************************************************************)
RunIdle ==
  /\ config = NoConfig
  /\ pc = "idle"
  /\ idx = 1
  /\ issues = <<>>
  /\ stats = [total |-> 0, issues |-> 0]
  /\ origin = <<>>
  /\ prev = NoResult

NoRun ==
  /\ pairs = <<>>
  /\ glossary = NoGlossary
  /\ limits = DefaultLimits
  /\ RunIdle

NoAlign ==
  /\ src_file = NoFile
  /\ tgt_file = NoFile
  /\ loaded = NotCalled
  /\ src_pairs = <<>>
  /\ tgt_pairs = <<>>
  /\ combined = [done |-> FALSE, value |-> <<>>]

NoApp ==
  /\ uploaded_source = NoFile
  /\ uploaded_target = NoFile
  /\ app = Idle

\* run_checks may be called again and again, with any config
Call == \E cfg \in Configs : Enter(cfg)

\* run_checks is called once, without config
CallOnce == pc = "idle" /\ Enter(NoConfig)

Next == Call \/ LoopStep \/ Return

NextOnce == CallOnce \/ LoopStep \/ Return

\* run_checks on lists of pairs
Init ==
  /\ pairs \in ListsUpTo(LoopPairs, MaxPairs)
  /\ glossary \in LoopGlossaries
  /\ limits = DefaultLimits
  /\ RunIdle /\ NoAlign /\ NoApp

Spec == Init /\ [][Next]_vars

\* run_checks on one pair of token segments
InitTokens ==
  /\ \E s \in TokenSegments, t \in TokenSegments :
       pairs = <<[id |-> <<"1">>, source |-> s, target |-> t]>>
  /\ glossary = NoGlossary
  /\ limits = DefaultLimits
  /\ RunIdle /\ NoAlign /\ NoApp

SpecTokens == InitTokens /\ [][NextOnce]_vars

\* run_checks on one pair of segments of given lengths, under several limits
InitRatio ==
  /\ \E s \in RatioSegments, t \in RatioSegments :
       pairs = <<[id |-> <<"1">>, source |-> s, target |-> t]>>
  /\ glossary = NoGlossary
  /\ limits \in RatioLimits
  /\ RunIdle /\ NoAlign /\ NoApp

SpecRatio == InitRatio /\ [][NextOnce]_vars

\* run_checks on one pair under several glossaries
InitGlossary ==
  /\ \E s \in GlossSources, t \in GlossTargets :
       pairs = <<[id |-> <<"1">>, source |-> s, target |-> t]>>
  /\ glossary \in {NoGlossary} \cup {Glossary(g) : g \in GlossItems}
  /\ limits = DefaultLimits
  /\ RunIdle /\ NoAlign /\ NoApp

SpecGlossary == InitGlossary /\ [][NextOnce]_vars

\* load_pairs on two files
InitLoad ==
  /\ src_file \in Files
  /\ tgt_file \in Files \cup {NoFile}
  /\ loaded = NotCalled
  /\ src_pairs = <<>>
  /\ tgt_pairs = <<>>
  /\ combined = [done |-> FALSE, value |-> <<>>]
  /\ NoRun /\ NoApp

SpecLoad == InitLoad /\ [][LoadPairs]_vars

\* the merge on two lists of records
InitMerge ==
  /\ src_pairs \in ListsUpTo(SourceRecords, MaxRecs)
  /\ tgt_pairs \in ListsUpTo(TargetRecords, MaxRecs)
  /\ combined = [done |-> FALSE, value |-> <<>>]
  /\ src_file = NoFile
  /\ tgt_file = NoFile
  /\ loaded = NotCalled
  /\ NoRun /\ NoApp

SpecMerge == InitMerge /\ [][MergeStep]_vars

\* the handler on two uploads
InitApp ==
  /\ uploaded_source \in Uploads \cup {NoFile}
  /\ uploaded_target \in Uploads \cup {NoFile}
  /\ app = Idle
  /\ NoRun /\ NoAlign

\* the button is pressed.  Every temporary file has a name without extension,
\* so load_pairs raises in the handler and run_checks is not entered from it.
Press ==
  \E g \in LoopGlossaries, c \in Configs, l \in RatioLimits :
    RunQA(g, c, l[1], l[2])

SpecApp == InitApp /\ [][Press]_vars

(***************************************************************************)
(* Properties                                                              *)
(***************************************************************************)
\* the issues of the given type in the current list
IssuesOfType(type) == SelectSeq(issues, LAMBDA x : x.issue_type = type)

Fires(type) == \E k \in 1..Len(issues) : issues[k].issue_type = type

\* the multiset of the elements of a list
TokenBag(l) ==
  [t \in {l[k] : k \in 1..Len(l)} |-> Cardinality({k \in 1..Len(l) : l[k] = t})]

\* source and target of the only pair of a one-pair run
OnlySource == Get(pairs[1], "source", <<>>)

OnlyTarget == Get(pairs[1], "target", <<>>)

\* C1: when run_checks returns, stats.total is the number of input pairs and
\* stats.issues is the length of the returned issue list.
C1_StatsCount ==
  pc = "done" => stats.total = Len(pairs) /\ stats.issues = Len(issues)

C1_Witness ==
  pc = "done" /\ Len(pairs) = 2 /\ Len(issues) >= 3 /\ stats.issues >= 3

\* rank of a rule in the order run_checks applies the rules
Rank(type) ==
  CASE type = "LENGTH_RATIO" -> 1
    [] type = "PLACEHOLDER_MISMATCH" -> 2
    [] type = "NUM_MISMATCH" -> 3
    [] type = "TAG_MISMATCH" -> 4
    [] type = "EMPTY_TARGET" -> 5
    [] type = "GLOSSARY_MISMATCH" -> 6

\* C2: the issue list is strictly ordered by (index of the pair, rank of the
\* rule): issues of an earlier pair come first, and within one pair each
\* type appears at most once, in rule order.  Every issue carries the id,
\* source and target of the pair that produced it.
C2_IssueOrder ==
  /\ Len(origin) = Len(issues)
  /\ \A k \in 1..Len(issues) :
       /\ origin[k] \in 1..Len(pairs)
       /\ issues[k].uid = Get(pairs[origin[k]], "id", None)
       /\ issues[k].source = Get(pairs[origin[k]], "source", <<>>)
       /\ issues[k].target = Get(pairs[origin[k]], "target", <<>>)
  /\ \A a, b \in 1..Len(issues) :
       a < b =>
         \/ origin[a] < origin[b]
         \/ /\ origin[a] = origin[b]
            /\ Rank(issues[a].issue_type) < Rank(issues[b].issue_type)

C2_Witness ==
  /\ pc = "done"
  /\ Len(pairs) = 2
  /\ Len(issues) = 8
  /\ {issues[k].issue_type : k \in 1..6} =
       {"LENGTH_RATIO", "PLACEHOLDER_MISMATCH", "NUM_MISMATCH", "TAG_MISMATCH",
        "EMPTY_TARGET", "GLOSSARY_MISMATCH"}
  /\ origin[6] = 1 /\ origin[7] = 2

\* entry k of the glossary is violated by the only pair
Violated(k) ==
  /\ IsSubstr(glossary.items[k][1], OnlySource)
  /\ ~IsSubstr(glossary.items[k][2], OnlyTarget)

ViolatedEntries == {k \in 1..Len(glossary.items) : Violated(k)}

FirstViolated == CHOOSE k \in ViolatedEntries : \A j \in ViolatedEntries : k <= j

\* C3: with a glossary supplied, a GLOSSARY_MISMATCH issue is emitted for a
\* pair iff some entry has its source term in the source and its target term
\* not in the target; there is exactly one, and its details name the first
\* violated entry in glossary order.
C3_GlossaryFirstViolated ==
  pc = "done" /\ glossary.supplied =>
    IF ViolatedEntries = {}
    THEN IssuesOfType("GLOSSARY_MISMATCH") = <<>>
    ELSE /\ Len(IssuesOfType("GLOSSARY_MISMATCH")) = 1
         /\ IssuesOfType("GLOSSARY_MISMATCH")[1].details =
              <<"E", "x", "p", "e", "c", "t", "e", "d", " ", "'">>
              \o glossary.items[FirstViolated][1]
              \o <<"'", " ", "-", ">", " ", "'">>
              \o glossary.items[FirstViolated][2] \o <<"'">>

C3_Witness ==
  /\ pc = "done"
  /\ glossary.supplied
  /\ ViolatedEntries = {2, 3}
  /\ Len(IssuesOfType("GLOSSARY_MISMATCH")) = 1

\* C4: each of PLACEHOLDER_MISMATCH, NUM_MISMATCH and TAG_MISMATCH fires iff
\* the multiset of tokens of the source differs from that of the target;
\* a pair with source equal to target fires none of the three.
C4_MultisetMismatch ==
  pc = "done" =>
    /\ Fires("PLACEHOLDER_MISMATCH") <=>
         TokenBag(FindPlaceholders(OnlySource, 1))
           # TokenBag(FindPlaceholders(OnlyTarget, 1))
    /\ Fires("NUM_MISMATCH") <=>
         TokenBag(FindNumbers(OnlySource, 1)) # TokenBag(FindNumbers(OnlyTarget, 1))
    /\ Fires("TAG_MISMATCH") <=>
         TokenBag(FindTags(OnlySource, 1)) # TokenBag(FindTags(OnlyTarget, 1))
    /\ OnlySource = OnlyTarget =>
         ~Fires("PLACEHOLDER_MISMATCH") /\ ~Fires("NUM_MISMATCH")
         /\ ~Fires("TAG_MISMATCH")

\* the target's placeholders and tags are the source's in another order
C4_Witness ==
  /\ pc = "done"
  /\ Len(FindPlaceholders(OnlySource, 1)) = 2
  /\ FindPlaceholders(OnlySource, 1) # FindPlaceholders(OnlyTarget, 1)
  /\ TokenBag(FindPlaceholders(OnlySource, 1))
       = TokenBag(FindPlaceholders(OnlyTarget, 1))
  /\ ~Fires("PLACEHOLDER_MISMATCH")

\* C5: LENGTH_RATIO fires iff source and target are both non-empty and
\* len(target)/max(1,len(source)) is strictly below min_ratio or strictly
\* above max_ratio.  Under (0.5, 3.0) and a source of 5 characters, a target
\* of 2 characters fires and a target of 3 does not.
C5_LengthRatio ==
  pc = "done" =>
    LET ls == Len(OnlySource)
        lt == Len(OnlyTarget)
        lo == limits[1]
        hi == limits[2]
        below == lt * lo.d < lo.n * ls
        above == lt * hi.d > hi.n * ls
    IN  /\ Fires("LENGTH_RATIO") <=> (ls > 0 /\ lt > 0 /\ (below \/ above))
        /\ limits = DefaultLimits /\ ls = 5 /\ lt = 2 => Fires("LENGTH_RATIO")
        /\ limits = DefaultLimits /\ ls = 5 /\ lt = 3 => ~Fires("LENGTH_RATIO")

\* a ratio equal to the lower bound (2/5) does not fire
C5_Witness ==
  /\ pc = "done"
  /\ limits = <<Rat(2, 5), Rat(3, 2)>>
  /\ Len(OnlySource) = 5
  /\ Len(OnlyTarget) = 2
  /\ ~Fires("LENGTH_RATIO")

\* the decimal numeral of a position below 10
Numeral(i) == <<(<<"1", "2", "3", "4", "5", "6", "7", "8", "9">>)[i]>>

\* the segment lists load_pairs aligns
SourceSegments == extract_segments(src_file, TRUE).value

TargetSegments ==
  IF tgt_file = NoFile THEN <<>> ELSE extract_segments(tgt_file, FALSE).value

\* C6: load_pairs returns max(len(S), len(T)) pairs; the pair at index i has
\* id str(i+1), source S[i] or "" past the end of S, target T[i] or "" past
\* the end of T.
C6_PositionalAlignment ==
  loaded.called /\ ~loaded.raised =>
    /\ Len(loaded.value) = Max(Len(SourceSegments), Len(TargetSegments))
    /\ \A i \in 1..Len(loaded.value) :
         /\ DOMAIN loaded.value[i] = {"id", "source", "target"}
         /\ loaded.value[i].id = Numeral(i)
         /\ loaded.value[i].source =
              IF i <= Len(SourceSegments) THEN SourceSegments[i] ELSE <<>>
         /\ loaded.value[i].target =
              IF i <= Len(TargetSegments) THEN TargetSegments[i] ELSE <<>>

C6_Witness ==
  /\ loaded.called /\ ~loaded.raised
  /\ Len(SourceSegments) = 1
  /\ Len(TargetSegments) = 2
  /\ loaded.value[2].source = <<>>
  /\ loaded.value[2].target # <<>>

\* the identifier of the record at position i of a side of the merge
RecordId(records, i) ==
  IF "id" \in DOMAIN records[i] /\ records[i].id # <<>>
  THEN records[i].id ELSE Numeral(i)

\* the positions of a side whose record has identifier u
Holders(records, u) == {i \in 1..Len(records) : RecordId(records, i) = u}

\* the text under key of the last record of a side with identifier u
LastText(records, u, key) ==
  IF Holders(records, u) = {} THEN <<>>
  ELSE LET last == CHOOSE i \in Holders(records, u) :
                     \A j \in Holders(records, u) : j <= i
       IN  IF key \in DOMAIN records[last] THEN records[last][key] ELSE <<>>

\* first position of u among the source-side identifiers followed by the
\* target-side ones
FirstSeen(u) ==
  IF Holders(src_pairs, u) # {}
  THEN CHOOSE i \in Holders(src_pairs, u) : \A j \in Holders(src_pairs, u) : i <= j
  ELSE Len(src_pairs)
       + (CHOOSE i \in Holders(tgt_pairs, u) : \A j \in Holders(tgt_pairs, u) : i <= j)

\* C7: the merged list holds each identifier of the union once, in the order
\* of first occurrence (source side first); each pair has the source text of
\* the last source-side record with its id and the target text of the last
\* target-side record with its id, "" when there is none.
C7_IdentifierMerge ==
  combined.done =>
    LET m == combined.value
    IN  /\ {m[k].id : k \in 1..Len(m)} =
             {RecordId(src_pairs, i) : i \in 1..Len(src_pairs)}
             \cup {RecordId(tgt_pairs, i) : i \in 1..Len(tgt_pairs)}
        /\ \A j, k \in 1..Len(m) : j < k => FirstSeen(m[j].id) < FirstSeen(m[k].id)
        /\ \A k \in 1..Len(m) :
             /\ m[k].source = LastText(src_pairs, m[k].id, "source")
             /\ m[k].target = LastText(tgt_pairs, m[k].id, "target")
        /\ (/\ src_pairs = <<[id |-> <<"a">>, source |-> <<"X">>]>>
            /\ tgt_pairs = <<[id |-> <<"b">>, target |-> <<"Y">>]>>)
           => m = <<[id |-> <<"a">>, source |-> <<"X">>, target |-> <<>>],
                    [id |-> <<"b">>, source |-> <<>>, target |-> <<"Y">>]>>

\* an id repeated on the source side (once explicit, once by position), and
\* an id of the target side alone
C7_Witness ==
  /\ combined.done
  /\ src_pairs = <<[id |-> <<"a">>, source |-> <<"X">>], [source |-> <<"Y">>]>>
  /\ tgt_pairs = <<[id |-> <<"b">>, target |-> <<"Y">>], [id |-> <<"2">>, target |-> <<"X">>]>>
  /\ Len(combined.value) = 3

\* C8: two calls of run_checks on the same pairs, glossary and limits return
\* the same issues and stats, whatever config each was given and whatever
\* was called before.
C8_ConfigIgnored ==
  pc = "done" /\ prev.returned =>
    issues = prev.issues /\ stats = prev.stats

C8_Witness ==
  /\ pc = "done" /\ prev.returned
  /\ ~prev.config.supplied
  /\ config.keys # {}
  /\ \E k \in 1..Len(issues) : issues[k].issue_type = "EMPTY_TARGET"

\* the upload to check: what extract_segments reads from the translated file
TranslatedSegments == extract_segments(uploaded_target, FALSE)

\* C9: once "Run QA" has run on two uploads, every segment i of the
\* translated file is the target of the pair with id str(i+1) handed to
\* run_checks.
C9_TranslatedSegmentsAreTargets ==
  app.status # "idle" /\ ~TranslatedSegments.raised =>
    \A i \in 1..Len(TranslatedSegments.value) :
      /\ i <= Len(app.handed)
      /\ app.handed[i].id = Numeral(i)
      /\ app.handed[i].target = TranslatedSegments.value[i]

\* the issues of run_checks on the one-pair list <<p>>
SinglePairRun(p) == <<>> \o PairIssues(p, glossary, config, limits)

\* C10: the issue list of run_checks(pairs) is the concatenation, in pair
\* order, of the issue lists of run_checks([p]) for each pair p.
C10_PairsIndependent ==
  pc = "done" =>
    issues = Concat([k \in 1..Len(pairs) |-> SinglePairRun(pairs[k])])

\* twice the same pair: its issues appear twice
C10_Witness ==
  /\ pc = "done"
  /\ Len(pairs) = 2
  /\ pairs[1] = pairs[2]
  /\ Len(issues) = 12

====
